---- MODULE Spec2Model ----
(***************************************************************************)
(* GlobalRehydrationSystem (global_rehydrate.py): the rehydration          *)
(* coordinator, its state dictionary, the state file it rewrites and the   *)
(* platform script it runs.                                                *)
(*                                                                         *)
(* Python values are modelled as follows.  A dict is a function from its   *)
(* keys (strings) to values, so a key may be absent; a list is a sequence; *)
(* None is the value None below; an exception is the class name in         *)
(* result.raised.  The text of the state file is the JSON document         *)
(* json_dump writes, a tree of tagged values distinct from the Python      *)
(* ones (None is written as null, True as true, a str as a string).        *)
(***************************************************************************)
EXTENDS Integers, Sequences, FiniteSets, TLC

---------------------------------------------------------------------------
(* Bounds of the model *)

\* number of clock readings after which no further rehydration is started
MaxClock == 3

\* number of records after which a long run starts no further rehydration
MaxRecords == 11

\* program constant: the default of get_history's limit parameter
DefaultLimit == 10

---------------------------------------------------------------------------
(* Python values *)

None == "<None>"

\* d.get(k, default)
Get(d, k, default) == IF k \in DOMAIN d THEN d[k] ELSE default

\* x in lst
In(x, lst) == \E i \in 1..Len(lst) : lst[i] = x

\* d[k] = v on a dict (adds the key when absent)
Put(d, k, v) == [x \in DOMAIN d \cup {k} |-> IF x = k THEN v ELSE d[x]]

\* datetime.now(timezone.utc).isoformat() when the clock reads t
isoformat(t) == "T" \o ToString(t)

---------------------------------------------------------------------------
(* The environment of the program *)

Coordinators == {"A", "B"}

\* the coordinator of the single-operator use the system is designed for
Primary == "A"

\* contents of manifest.json: a windows script only; linux scripts only
WindowsManifest ==
    [scripts |-> << [platform |-> "windows", path |-> "rehydrate.ps1"] >>]

LinuxManifest ==
    [scripts |-> << [platform |-> "linux", path |-> "rehydrate.sh"],
                    [platform |-> "linux", path |-> "legacy.sh"] >>]

\* environments given on the command line
Environments == {"development", "production"}

\* the script files an installation has on disk, by manifest path
ScriptFiles == {"rehydrate.sh", "legacy.sh", "rehydrate.ps1"}

\* what a run of the platform script yields: the exit code, and the stdout
\* and stderr captured
ScriptRuns ==
    { [returncode |-> rc,
       stdout |-> IF rc = 0 THEN "restored" ELSE "",
       stderr |-> IF rc = 0 THEN "" ELSE "disk full"] : rc \in {0, 1, 2} }

\* the script runs of the long runs and of the runs with failing writes:
\* the script exits with 0 or with 1
ScriptRunsZeroOne == {r \in ScriptRuns : r.returncode \in {0, 1}}

\* outcomes of writing the state file: written; open() raises (the file is
\* left as it was); the write raises after open() truncated the file
WriteOutcomes == {"ok", "open_raises", "write_raises"}

VARIABLES
    system,    \* platform.system() of the host
    config,    \* self.config (the same configuration file for every coordinator)
    manifest,  \* self.manifest
    state,     \* state[c]: self.state of coordinator c
    file,      \* global_state.json on disk
    on_disk,   \* the script files that exist on disk
    clock,     \* the UTC clock
    call,      \* the last event: the operation called, its coordinator and
               \* arguments (op "filesystem" for a change of the script files)
    result,    \* what the last call returned or raised
    executed,  \* the child processes the last call ran with subprocess.run:
               \* the command and the return code of each
    saves,     \* the number of times the last call entered _save_state
    hydrated_since_reset
               \* history variable: a script run has exited with code 0 since
               \* the last reset (or since the start)

vars == <<system, config, manifest, state, file, on_disk, clock, call, result, executed, saves, hydrated_since_reset>>

---------------------------------------------------------------------------
(* JSON: what json.dump writes and json.load reads back *)

JNull == [t |-> "null"]
JBool(b) == [t |-> IF b THEN "true" ELSE "false"]
JNum(n) == [t |-> "number", v |-> n]
JStr(s) == [t |-> "string", v |-> s]
JArr(a) == [t |-> "array", v |-> a]
JObj(d) == [t |-> "object", v |-> d]

\* the text left by a write that raised after open() truncated the file
Truncated == [t |-> "truncated"]

\* a str or None
json_of_text(v) == IF v = None THEN JNull ELSE JStr(v)

\* a rehydration record: verify_integrity is a bool, returncode an int,
\* every other value a str
json_of_record(r) ==
    JObj([k \in DOMAIN r |->
            CASE k = "verify_integrity" -> JBool(r[k])
              [] k = "returncode" -> JNum(r[k])
              [] OTHER -> json_of_text(r[k])])

\* json.dump(self.state, f, indent=2)
json_dump(st) ==
    JObj([k \in DOMAIN st |->
            CASE k = "rehydration_history" ->
                    JArr([i \in 1..Len(st[k]) |-> json_of_record(st[k][i])])
              [] k = "active_environments" ->
                    JArr([i \in 1..Len(st[k]) |-> json_of_text(st[k][i])])
              [] OTHER -> json_of_text(st[k])])

\* whether json.load accepts the text (it raises JSONDecodeError otherwise)
json_decodes(j) == j.t # "truncated"

\* json.load(f)
RECURSIVE json_load(_)
json_load(j) ==
    CASE j.t = "null" -> None
      [] j.t = "true" -> TRUE
      [] j.t = "false" -> FALSE
      [] j.t \in {"number", "string"} -> j.v
      [] j.t = "array" -> [i \in DOMAIN j.v |-> json_load(j.v[i])]
      [] j.t = "object" -> [k \in DOMAIN j.v |-> json_load(j.v[k])]

---------------------------------------------------------------------------
(* The state store *)

NoFile == [exists |-> FALSE]

FileWith(text) == [exists |-> TRUE, text |-> text]

\* the state _load_state returns when there is no state file, and reset sets
DefaultState ==
    [last_rehydration |-> None,
     rehydration_history |-> <<>>,
     active_environments |-> <<>>,
     system_status |-> "uninitialized"]

\* the configuration _load_config returns when there is no configuration file
DefaultConfig ==
    [default_environment |-> "development",
     verify_integrity_by_default |-> TRUE,
     log_level |-> "INFO",
     max_retry_attempts |-> 3,
     timeout_seconds |-> 300]

\* a configuration file that sets other defaults
CustomConfig ==
    [default_environment |-> "production", verify_integrity_by_default |-> FALSE]

\* the installations modelled: the host's platform.system(), the manifest
\* (<<>> when there is no manifest file) and the configuration
Installations ==
    { [system |-> "FreeBSD", manifest |-> LinuxManifest, config |-> DefaultConfig],
      [system |-> "Windows", manifest |-> WindowsManifest, config |-> CustomConfig],
      [system |-> "Linux", manifest |-> WindowsManifest, config |-> DefaultConfig],
      [system |-> "Darwin", manifest |-> <<>>, config |-> DefaultConfig] }

\* _load_state: whether it raises, and the state it returns otherwise
load_state_raises(f) == f.exists /\ ~json_decodes(f.text)

load_state(f) == IF f.exists THEN json_load(f.text) ELSE DefaultState

\* str(e) of the OSError a failed write raises
OSErrorText(w) ==
    IF w = "open_raises" THEN "[Errno 13] Permission denied: 'global_state.json'"
    ELSE "[Errno 28] No space left on device"

\* mutant: a file that holds at least as many records is left as it is
save_state_first_writer_wins(f, st, w) ==
    IF /\ f.exists
       /\ f.text.t = "object"
       /\ Len(f.text.v.rehydration_history.v) >= Len(Get(st, "rehydration_history", <<>>))
    THEN f
    ELSE FileWith(json_dump(st))

\* mutant: the state is not written
save_state_not_written(f, st, w) == f

\* _save_state: the file after the call, for the write outcome w
save_state(f, st, w) ==
    CASE w = "ok" -> FileWith(json_dump(st))
      [] w = "open_raises" -> f
      [] w = "write_raises" -> FileWith(Truncated)

---------------------------------------------------------------------------
(* Platform resolver, manifest lookup, script invoker *)

\* str.lower on the values of platform.system()
lower(s) ==
    CASE s = "Windows" -> "windows"
      [] s = "Linux" -> "linux"
      [] s = "Darwin" -> "darwin"
      [] s = "FreeBSD" -> "freebsd"
      [] OTHER -> s

detect_platform ==
    IF lower(system) = "windows" THEN "windows"
    ELSE IF lower(system) \in {"linux", "darwin"} THEN "linux"
    ELSE "linux"

\* mutant: the first script of the manifest, whatever its platform
get_script_for_any_platform(platform_name) ==
    LET scripts == Get(manifest, "scripts", <<>>)
    IN  IF scripts = <<>> THEN <<>> ELSE <<scripts[1]>>

\* _get_script_for_platform: the first script of the manifest registered
\* for the platform.  The value is <<script>>, or <<>> for None.
get_script_for_platform(platform_name) ==
    LET scripts == Get(manifest, "scripts", <<>>)
        matches == {i \in 1..Len(scripts) : scripts[i].platform = platform_name}
    IN  IF matches = {} THEN <<>>
        ELSE <<scripts[CHOOSE i \in matches : \A j \in matches : i <= j]>>

\* self.base_path / script_info["path"]
script_path_of(script_info) == "<base_path>/" \o script_info.path

\* mutant: the existence of the script is not tested
script_exists_unchecked(script_info) == TRUE

\* script_path.exists()
script_exists(script_info) == script_info.path \in on_disk

\* the command _execute_platform_script builds
build_command(script_info, environment, verify_integrity) ==
    IF script_info.platform = "windows"
    THEN <<"powershell", "-ExecutionPolicy", "Bypass",
           "-File", script_path_of(script_info), "-Environment", environment>>
         \o (IF verify_integrity THEN <<"-VerifyIntegrity">> ELSE <<>>)
    ELSE <<"bash", script_path_of(script_info), "--environment=" \o environment>>
         \o (IF verify_integrity THEN <<"--verify">> ELSE <<>>)

\* mutant: success does not depend on the return code
execute_platform_script_always_success(script_info, environment, verify_integrity, run) ==
    IF ~script_exists(script_info)
    THEN [raised |-> "FileNotFoundError",
          message |-> "Script not found: " \o script_path_of(script_info),
          executed |-> <<>>]
    ELSE [raised |-> "",
          executed |-> << [cmd |-> build_command(script_info, environment, verify_integrity),
                           returncode |-> run.returncode] >>,
          value |-> [success |-> TRUE,
                     returncode |-> run.returncode,
                     stdout |-> run.stdout,
                     stderr |-> run.stderr]]

\* _execute_platform_script; run is what the child process yields if started
execute_platform_script(script_info, environment, verify_integrity, run) ==
    IF ~script_exists(script_info)
    THEN [raised |-> "FileNotFoundError",
          message |-> "Script not found: " \o script_path_of(script_info),
          executed |-> <<>>]
    ELSE [raised |-> "",
          executed |-> << [cmd |-> build_command(script_info, environment, verify_integrity),
                           returncode |-> run.returncode] >>,
          value |-> [success |-> run.returncode = 0,
                     returncode |-> run.returncode,
                     stdout |-> run.stdout,
                     stderr |-> run.stderr]]

---------------------------------------------------------------------------
(* The rehydration coordinator *)

\* the arguments rehydrate is called with: environment is absent (None) or
\* given, force is a bool, and verify_integrity is left to the configuration
RehydrateArgs ==
    { [force |-> f] @@ e :
        f \in BOOLEAN,
        e \in {<<>>} \cup {[environment |-> x] : x \in Environments} }

\* the environment and verify_integrity a call uses: the argument, else the
\* configuration's default
resolve_environment(args) ==
    IF "environment" \in DOMAIN args THEN args.environment
    ELSE Get(config, "default_environment", "development")

resolve_verify_integrity(args) ==
    IF "verify_integrity" \in DOMAIN args THEN args.verify_integrity
    ELSE Get(config, "verify_integrity_by_default", TRUE)

\* mutant: the test does not look at the environment
already_hydrated_any_environment(st, environment, force) ==
    /\ ~force
    /\ Get(st, "system_status", None) = "hydrated"

\* mutant: the test made for forced calls instead of non-forced ones
already_hydrated_when_forced(st, environment, force) ==
    /\ force
    /\ Get(st, "system_status", None) = "hydrated"
    /\ In(environment, Get(st, "active_environments", <<>>))

\* mutant: the test made whatever force is
already_hydrated_ignoring_force(st, environment, force) ==
    /\ Get(st, "system_status", None) = "hydrated"
    /\ In(environment, Get(st, "active_environments", <<>>))

\* the "already hydrated" test of rehydrate
already_hydrated(st, environment, force) ==
    /\ ~force
    /\ Get(st, "system_status", None) = "hydrated"
    /\ In(environment, Get(st, "active_environments", <<>>))

\* mutant: the list is cut to its last two items after the append
append_to_keeping_two(st, key, item) ==
    LET lst == Append(Get(st, key, <<>>), item)
    IN  Put(st, key, SubSeq(lst, IF Len(lst) > 2 THEN Len(lst) - 1 ELSE 1, Len(lst)))

\* mutant: insert(0, item) for append(item)
prepend_to(st, key, item) == Put(st, key, <<item>> \o Get(st, key, <<>>))

\* self.state.setdefault(key, []).append(item)
append_to(st, key, item) == Put(st, key, Append(Get(st, key, <<>>), item))

\* mutant: system_status is not set
mark_hydrated_without_status(st, environment, t) ==
    LET st1 == Put(st, "last_rehydration", isoformat(t))
    IN  IF ~In(environment, Get(st1, "active_environments", <<>>))
        THEN append_to(st1, "active_environments", environment)
        ELSE st1

\* mutant: the environment is appended without the membership test
mark_hydrated_always_appending(st, environment, t) ==
    LET st1 == Put(st, "last_rehydration", isoformat(t))
        st2 == Put(st1, "system_status", "hydrated")
    IN  append_to(st2, "active_environments", environment)

\* the updates of the global state after a successful script run, made when
\* the clock reads t
mark_hydrated(st, environment, t) ==
    LET st1 == Put(st, "last_rehydration", isoformat(t))
        st2 == Put(st1, "system_status", "hydrated")
    IN  IF ~In(environment, Get(st2, "active_environments", <<>>))
        THEN append_to(st2, "active_environments", environment)
        ELSE st2

\* the except branch of rehydrate, entered with the record as it is when the
\* exception (of text message) is caught.  in_history tells whether the record
\* object is already the last element of the history: the handler's updates
\* of the record then show there too.  w is the outcome of the handler's write.
rehydrate_except(st, f, t, record, in_history, message, executed_, saves_, w) ==
    LET record_e == Put(Put(record, "status", "error"), "error", message)
        history == Get(st, "rehydration_history", <<>>)
        st1 == IF in_history
               THEN Put(st, "rehydration_history",
                        [history EXCEPT ![Len(history)] = record_e])
               ELSE st
        st2 == append_to(st1, "rehydration_history", record_e)
    IN  [state |-> st2,
         file |-> save_state(f, st2, w),
         clock |-> t,
         executed |-> executed_,
         saves |-> saves_ + 1,
         result |-> IF w = "ok"
                    THEN [raised |-> "",
                          value |-> [success |-> FALSE,
                                     message |-> "Error: " \o message,
                                     details |-> record_e]]
                    ELSE [raised |-> "OSError", value |-> OSErrorText(w)]]

\* rehydrate(environment, verify_integrity, force) on the coordinator whose
\* state is st, with the state file f and the clock reading t.  script_run
\* is what the script yields if it is run; writes[i] is the outcome of the
\* call's i-th write of the state file.
rehydrate(st, f, t, args, script_run, writes) ==
    LET environment == resolve_environment(args)
        verify_integrity == resolve_verify_integrity(args)
        current_platform == detect_platform
        untouched == [state |-> st, file |-> f, clock |-> t,
                      executed |-> <<>>, saves |-> 0]
    IN
    IF already_hydrated(st, environment, args.force)
    THEN untouched @@
         [result |-> [raised |-> "",
                      value |-> [success |-> TRUE,
                                 message |-> "Already hydrated",
                                 skipped |-> TRUE]]]
    ELSE IF get_script_for_platform(current_platform) = <<>>
    THEN untouched @@
         [result |-> [raised |-> "ValueError",
                      value |-> "No script found for platform: " \o current_platform]]
    ELSE
    LET script_info == get_script_for_platform(current_platform)[1]
        rehydration_record ==
            [timestamp |-> isoformat(t),
             environment |-> environment,
             platform |-> current_platform,
             verify_integrity |-> verify_integrity,
             status |-> "in_progress"]
        run == execute_platform_script(script_info, environment, verify_integrity, script_run)
    IN
    IF run.raised # ""
    THEN rehydrate_except(st, f, t + 1, rehydration_record, FALSE,
                          run.message, run.executed, 0, writes[1])
    ELSE
    LET res == run.value
        record1 == Put(Put(Put(rehydration_record,
                        "status", IF res.success THEN "success" ELSE "failed"),
                        "returncode", res.returncode),
                        "output", res.stdout)
        st1 == IF res.success THEN mark_hydrated(st, environment, t + 1) ELSE st
        t1 == IF res.success THEN t + 2 ELSE t + 1
        st2 == append_to(st1, "rehydration_history", record1)
    IN
    IF writes[1] = "ok"
    THEN [state |-> st2,
          file |-> save_state(f, st2, writes[1]),
          clock |-> t1,
          executed |-> run.executed,
          saves |-> 1,
          result |-> [raised |-> "",
                      value |-> [success |-> res.success,
                                 message |-> IF res.success
                                             THEN "Rehydration completed"
                                             ELSE "Rehydration failed",
                                 details |-> record1]]]
    ELSE rehydrate_except(st2, save_state(f, st2, writes[1]), t1, record1, TRUE,
                          OSErrorText(writes[1]), run.executed, 1, writes[2])

\* mutant: total_rehydrations counts the success records only
get_status_counting_successes(st) ==
    [system_status |-> Get(st, "system_status", "uninitialized"),
     active_environments |-> Get(st, "active_environments", <<>>),
     last_rehydration |-> Get(st, "last_rehydration", None),
     total_rehydrations |->
        Cardinality({i \in 1..Len(Get(st, "rehydration_history", <<>>)) :
                        st.rehydration_history[i].status = "success"})]

\* get_status()
get_status(st) ==
    [system_status |-> Get(st, "system_status", "uninitialized"),
     active_environments |-> Get(st, "active_environments", <<>>),
     last_rehydration |-> Get(st, "last_rehydration", None),
     total_rehydrations |-> Len(Get(st, "rehydration_history", <<>>))]

\* lst[i:] of Python: a negative i counts from the end, and a start outside
\* the list is clamped to it
slice_from(lst, i) ==
    LET start == IF i < 0
                 THEN (IF Len(lst) + i < 0 THEN 0 ELSE Len(lst) + i)
                 ELSE (IF i > Len(lst) THEN Len(lst) ELSE i)
    IN  SubSeq(lst, start + 1, Len(lst))

\* mutant: history[:limit] for history[-limit:]
get_history_from_start(st, limit) ==
    LET history == Get(st, "rehydration_history", <<>>)
    IN  IF limit # 0
        THEN SubSeq(history, 1, IF limit < Len(history) THEN limit ELSE Len(history))
        ELSE history

\* get_history(limit): history[-limit:] if limit else history
get_history(st, limit) ==
    LET history == Get(st, "rehydration_history", <<>>)
    IN  IF limit # 0 THEN slice_from(history, -limit) ELSE history

\* mutant: the history is not part of the state reset sets
reset_without_history(f, w) ==
    [state |-> [last_rehydration |-> None, active_environments |-> <<>>, system_status |-> "uninitialized"],
     file |-> save_state(f, [last_rehydration |-> None, active_environments |-> <<>>, system_status |-> "uninitialized"], w),
     result |-> IF w = "ok" THEN [raised |-> "", value |-> None]
                ELSE [raised |-> "OSError", value |-> OSErrorText(w)]]

\* reset(): the state it sets and the file it writes
reset(f, w) ==
    [state |-> DefaultState,
     file |-> save_state(f, DefaultState, w),
     result |-> IF w = "ok" THEN [raised |-> "", value |-> None]
                ELSE [raised |-> "OSError", value |-> OSErrorText(w)]]

---------------------------------------------------------------------------
(* The state machine *)

\* the arguments get_history is called with: no limit, or one of some limits
Limits == {0, 1, 2, 3}

HistoryArgs == {<<>>} \cup {[limit |-> n] : n \in Limits}

\* mutant: without a limit argument, no limit applies
resolve_limit_unlimited(args) ==
    IF "limit" \in DOMAIN args THEN args.limit ELSE 0

\* the limit a get_history call uses: the argument, else the parameter's
\* default
resolve_limit(args) ==
    IF "limit" \in DOMAIN args THEN args.limit ELSE DefaultLimit

Init ==
    /\ \E i \in Installations :
          /\ system = i.system
          /\ manifest = i.manifest
          /\ config = i.config
    /\ state = [c \in Coordinators |-> DefaultState]
    /\ file = NoFile
    /\ on_disk = ScriptFiles
    /\ clock = 0
    /\ call = [op |-> "__init__", coordinator |-> Primary, args |-> <<>>]
    /\ result = [raised |-> "", value |-> None]
    /\ executed = <<>>
    /\ saves = 0
    /\ hydrated_since_reset = FALSE

\* whether rehydrate with these arguments would read the clock
reads_clock(st, args) ==
    /\ ~already_hydrated(st, resolve_environment(args), args.force)
    /\ get_script_for_platform(detect_platform) # <<>>

\* the effects of a rehydrate call r (a value of rehydrate) of coordinator c
RehydrateStep(c, args, r) ==
    /\ state' = [state EXCEPT ![c] = r.state]
    /\ file' = r.file
    /\ clock' = r.clock
    /\ call' = [op |-> "rehydrate", coordinator |-> c,
                args |-> [environment |-> resolve_environment(args),
                          verify_integrity |-> resolve_verify_integrity(args),
                          force |-> args.force]]
    /\ result' = r.result
    /\ executed' = r.executed
    /\ saves' = r.saves
    /\ hydrated_since_reset' =
          (hydrated_since_reset \/ \E i \in 1..Len(r.executed) : r.executed[i].returncode = 0)
    /\ UNCHANGED <<system, config, manifest, on_disk>>

\* coordinator c runs rehydrate; every write of the state file succeeds
Rehydrate(c) ==
    \E args \in RehydrateArgs, script_run \in ScriptRuns :
        /\ reads_clock(state[c], args) => clock < MaxClock
        /\ \E r \in {rehydrate(state[c], file, clock, args, script_run, <<"ok", "ok">>)} :
              RehydrateStep(c, args, r)

\* coordinator c runs get_status
GetStatus(c) ==
    /\ call' = [op |-> "get_status", coordinator |-> c, args |-> <<>>]
    /\ result' = [raised |-> "", value |-> get_status(state[c])]
    /\ executed' = <<>>
    /\ saves' = 0
    /\ UNCHANGED <<system, config, manifest, state, file, on_disk, clock, hydrated_since_reset>>

\* coordinator c runs get_history
GetHistory(c) ==
    \E args \in HistoryArgs :
        /\ call' = [op |-> "get_history", coordinator |-> c,
                    args |-> [limit |-> resolve_limit(args),
                              limit_given |-> "limit" \in DOMAIN args]]
        /\ result' = [raised |-> "", value |-> get_history(state[c], resolve_limit(args))]
        /\ executed' = <<>>
        /\ saves' = 0
        /\ UNCHANGED <<system, config, manifest, state, file, on_disk, clock, hydrated_since_reset>>

\* the effects of a reset call r (a value of reset) of coordinator c
ResetStep(c, r) ==
    /\ state' = [state EXCEPT ![c] = r.state]
    /\ file' = r.file
    /\ call' = [op |-> "reset", coordinator |-> c, args |-> <<>>]
    /\ result' = r.result
    /\ executed' = <<>>
    /\ saves' = 1
    /\ hydrated_since_reset' = FALSE
    /\ UNCHANGED <<system, config, manifest, on_disk, clock>>

\* coordinator c runs reset; the write of the state file succeeds
Reset(c) == \E r \in {reset(file, "ok")} : ResetStep(c, r)

\* a new process constructs coordinator c: __init__ loads the state file.
\* When _load_state raises, no new coordinator comes to be.
Construct(c) ==
    /\ state' = [state EXCEPT ![c] = IF load_state_raises(file) THEN @ ELSE load_state(file)]
    /\ call' = [op |-> "__init__", coordinator |-> c, args |-> <<>>]
    /\ result' = IF load_state_raises(file)
                 THEN [raised |-> "JSONDecodeError", value |-> None]
                 ELSE [raised |-> "", value |-> None]
    /\ executed' = <<>>
    /\ saves' = 0
    /\ UNCHANGED <<system, config, manifest, file, on_disk, clock, hydrated_since_reset>>

\* the script files are removed from the disk, or put back
Filesystem ==
    /\ on_disk' = IF on_disk = {} THEN ScriptFiles ELSE {}
    /\ call' = [op |-> "filesystem", coordinator |-> None, args |-> <<>>]
    /\ result' = [raised |-> "", value |-> None]
    /\ executed' = <<>>
    /\ saves' = 0
    /\ UNCHANGED <<system, config, manifest, state, file, clock, hydrated_since_reset>>

\* single-operator use: one coordinator at a time, each command possibly a
\* new process, and a state file that can be written
Next ==
    \/ Rehydrate(Primary)
    \/ GetStatus(Primary)
    \/ GetHistory(Primary)
    \/ Reset(Primary)
    \/ Construct(Primary)
    \/ Filesystem

Spec == Init /\ [][Next]_vars

\* the outcomes of the two writes a rehydrate call may make: a write that
\* raises is followed by one that succeeds or raises in the same way
WriteSchedules ==
    { <<"ok", "ok">> } \cup
    UNION { { <<w, "ok">>, <<w, w>> } : w \in WriteOutcomes \ {"ok"} }

\* coordinator c runs rehydrate; each write of the state file may raise
RehydrateWriteFault(c) ==
    \E args \in RehydrateArgs, script_run \in ScriptRunsZeroOne, writes \in WriteSchedules :
        /\ reads_clock(state[c], args) => clock < MaxClock
        /\ \E r \in {rehydrate(state[c], file, clock, args, script_run, writes)} :
              RehydrateStep(c, args, r)

\* coordinator c runs reset; the write of the state file may raise
ResetWriteFault(c) ==
    \E w \in WriteOutcomes : \E r \in {reset(file, w)} : ResetStep(c, r)

\* single-operator use with a state file whose writes may fail (the reads
\* get_status and get_history, which no write affects, are left to Next)
NextWriteFault ==
    \/ RehydrateWriteFault(Primary)
    \/ ResetWriteFault(Primary)
    \/ Construct(Primary)
    \/ Filesystem

SpecWriteFault == Init /\ [][NextWriteFault]_vars

\* the calls of a long run: forced rehydrations of the default environment
LongRunArgs == {[force |-> TRUE]}

\* coordinator c runs rehydrate in a long run, until the history holds
\* MaxRecords records
RehydrateLongRun(c) ==
    \E args \in LongRunArgs, script_run \in ScriptRunsZeroOne :
        /\ Len(state[c].rehydration_history) < MaxRecords
        /\ \E r \in {rehydrate(state[c], file, clock, args, script_run, <<"ok", "ok">>)} :
              RehydrateStep(c, args, r)

\* a long run of one coordinator: rehydrations, and reads of the history
NextLongRun ==
    \/ RehydrateLongRun(Primary)
    \/ GetHistory(Primary)

SpecLongRun == Init /\ [][NextLongRun]_vars

\* two processes share the state file: each constructs its coordinator
\* (loading the file) and runs rehydrate, in any order
NextShared ==
    \/ \E c \in Coordinators : Construct(c)
    \/ \E c \in Coordinators : Rehydrate(c)

SpecShared == Init /\ [][NextShared]_vars

---------------------------------------------------------------------------
(* Vocabulary of the properties.  In a step that changes vars, call' is    *)
(* the event of the step, the unprimed variables are the state it starts   *)
(* from and the primed ones the state it ends in.                          *)

\* the step is a rehydrate call
RehydrateCalled == call'.op = "rehydrate"

\* the state of the coordinator of the step, before and after it
Before == state[call'.coordinator]

After == state'[call'.coordinator]

\* the idempotency gate as the specification words it, for the step's call
GateFires ==
    /\ ~call'.args.force
    /\ Before.system_status = "hydrated"
    /\ \E i \in 1..Len(Before.active_environments) :
          Before.active_environments[i] = call'.args.environment

\* the platform the host resolves to, and whether the manifest registers a
\* script for it
ResolvedPlatform == IF system = "Windows" THEN "windows" ELSE "linux"

ScriptRegistered ==
    /\ "scripts" \in DOMAIN manifest
    /\ \E i \in 1..Len(manifest.scripts) : manifest.scripts[i].platform = ResolvedPlatform

\* the path of the first script registered for the platform
RegisteredPath ==
    LET idx == {i \in 1..Len(manifest.scripts) : manifest.scripts[i].platform = ResolvedPlatform}
    IN  manifest.scripts[CHOOSE i \in idx : \A j \in idx : i <= j].path

\* the step is a rehydrate call that creates a record: it gets past the
\* gate and the script lookup
RecordCreated == RehydrateCalled /\ ~GateFires /\ ScriptRegistered

\* the step is a rehydrate call in which the script runs and exits with rc
ScriptExited(rc) == RehydrateCalled /\ Len(executed') = 1 /\ executed'[1].returncode = rc

\* the last record of a history
Last(h) == h[Len(h)]

\* the history records the state file holds, as JSON objects
PersistedRecords == IF file.exists THEN file.text.v.rehydration_history.v ELSE <<>>

\* the JSON document of the empty state
EmptyDocument ==
    [t |-> "object",
     v |-> [last_rehydration |-> [t |-> "null"],
            rehydration_history |-> [t |-> "array", v |-> <<>>],
            active_environments |-> [t |-> "array", v |-> <<>>],
            system_status |-> [t |-> "string", v |-> "uninitialized"]]]

---------------------------------------------------------------------------
(* C1: when system_status is hydrated and the environment is in            *)
(* active_environments, rehydrate without force returns success and        *)
(* skipped, runs no script, appends nothing to the history, and leaves the *)
(* in-memory state and the state file as they were.                        *)

C1_IdempotencyGate ==
    [][ (RehydrateCalled /\ GateFires) =>
          /\ result'.raised = ""
          /\ DOMAIN result'.value = {"success", "message", "skipped"}
          /\ result'.value.success = TRUE
          /\ result'.value.skipped = TRUE
          /\ executed' = <<>>
          /\ saves' = 0
          /\ After.rehydration_history = Before.rehydration_history
          /\ state' = state
          /\ file' = file ]_vars

\* a non-forced rehydrate of an active environment has returned skipped
C1_Witness ==
    /\ call.op = "rehydrate"
    /\ ~call.args.force
    /\ result.raised = ""
    /\ "skipped" \in DOMAIN result.value
    /\ state[Primary].system_status = "hydrated"
    /\ In(call.args.environment, state[Primary].active_environments)
    /\ Len(state[Primary].rehydration_history) = 1

(* C2: rehydrate with force is never short-circuited as skipped, whatever  *)
(* the prior system_status, active_environments and history: it goes on to *)
(* the script.  With a script registered for the platform it creates the   *)
(* attempt's record and enters the script invoker, which runs the script's *)
(* command when the script file exists (and raises the not-found error the *)
(* record then holds when it does not); with none registered it raises the *)
(* configuration error.                                                    *)

C2_ForceInvokes ==
    [][ (RehydrateCalled /\ call'.args.force) =>
          /\ result'.raised = "" => "skipped" \notin DOMAIN result'.value
          /\ ScriptRegistered =>
                /\ Len(After.rehydration_history) = Len(Before.rehydration_history) + 1
                /\ Last(After.rehydration_history).environment = call'.args.environment
                /\ IF RegisteredPath \in on_disk
                   THEN /\ Len(executed') = 1
                        /\ Last(After.rehydration_history).status \in {"success", "failed"}
                   ELSE /\ executed' = <<>>
                        /\ Last(After.rehydration_history).status = "error"
          /\ ~ScriptRegistered => result'.raised = "ValueError" ]_vars

\* a forced rehydrate has run the script for an environment that an earlier
\* record of the history had already hydrated
C2_Witness ==
    /\ call.op = "rehydrate"
    /\ call.args.force
    /\ Len(executed) = 1
    /\ LET h == state[Primary].rehydration_history
       IN  /\ Len(h) = 2
           /\ h[1].status = "success"
           /\ h[1].environment = call.args.environment
           /\ h[2].environment = call.args.environment

(* C3: a rehydrate call that gets past the gate and the script lookup      *)
(* appends exactly one record, after the previous history, and writes the  *)
(* state file exactly once; the record's status is success, failed or      *)
(* error, and no record of status in_progress is ever in the in-memory or  *)
(* the persisted history.                                                  *)

C7_MissingScript ==
    [][ (RecordCreated /\ RegisteredPath \notin on_disk) =>
          /\ result'.raised = ""
          /\ result'.value.success = FALSE
          /\ Len(After.rehydration_history) = Len(Before.rehydration_history) + 1
          /\ Last(After.rehydration_history).status = "error"
          /\ Last(After.rehydration_history).error = "Script not found: <base_path>/" \o RegisteredPath
          /\ "returncode" \notin DOMAIN Last(After.rehydration_history)
          /\ saves' = 1
          /\ file'.exists
          /\ Last(PersistedRecords').v.status.v = "error"
          /\ After.system_status = Before.system_status
          /\ After.active_environments = Before.active_environments ]_vars

\* the script went missing after a successful rehydration, and a forced
\* rehydrate has recorded the error
C7_Witness ==
    /\ call.op = "rehydrate"
    /\ result.raised = ""
    /\ result.value.success = FALSE
    /\ on_disk = {}
    /\ state[Primary].system_status = "hydrated"
    /\ Len(state[Primary].rehydration_history) = 2
    /\ Last(state[Primary].rehydration_history).status = "error"

(* C8: when the manifest has no entry for the resolved platform and the    *)
(* gate does not fire, rehydrate raises the configuration error, creates   *)
(* no record, and changes neither the in-memory state nor the state file.  *)

C8_NoScriptForPlatform ==
    [][ (RehydrateCalled /\ ~GateFires /\ ~ScriptRegistered) =>
          /\ result'.raised = "ValueError"
          /\ result'.value = "No script found for platform: " \o ResolvedPlatform
          /\ After.rehydration_history = Before.rehydration_history
          /\ executed' = <<>>
          /\ saves' = 0
          /\ state' = state
          /\ file' = file ]_vars

\* rehydrate has raised on a Linux host whose manifest has only a windows
\* entry
C8_Witness ==
    /\ call.op = "rehydrate"
    /\ result.raised = "ValueError"
    /\ system = "Linux"
    /\ Len(manifest.scripts) = 1
    /\ manifest.scripts[1].platform = "windows"

(* C9: reset replaces the state with the defaults and writes it to the     *)
(* state file, from any state, and get_status right after it yields        *)
(* uninitialized, no active environments, no last rehydration and zero     *)
(* rehydrations.                                                           *)

C9_ResetThenStatus ==
    [][ /\ call'.op = "reset" =>
            /\ After = [last_rehydration |-> None, rehydration_history |-> <<>>,
                        active_environments |-> <<>>, system_status |-> "uninitialized"]
            /\ saves' = 1
            /\ file' = [exists |-> TRUE, text |-> EmptyDocument]
        /\ (call.op = "reset" /\ call'.op = "get_status" /\ call'.coordinator = call.coordinator) =>
            result'.value = [system_status |-> "uninitialized",
                             active_environments |-> <<>>,
                             last_rehydration |-> None,
                             total_rehydrations |-> 0] ]_vars

\* get_status has run right after a reset of a hydrated system
C9_Witness ==
    /\ call.op = "get_status"
    /\ result.value.total_rehydrations = 0
    /\ result.value.system_status = "uninitialized"
    /\ clock = 2
    /\ file = [exists |-> TRUE, text |-> EmptyDocument]

(* C10: get_history with a limit n >= 1 returns the last min(n, len)       *)
(* records of the history in their original order, and changes nothing.    *)

C10_HistoryWindow ==
    [][ (call'.op = "get_history" /\ call'.args.limit >= 1) =>
          LET h == Before.rehydration_history
              n == call'.args.limit
              k == IF n < Len(h) THEN n ELSE Len(h)
          IN  /\ result'.raised = ""
              /\ Len(result'.value) = k
              /\ \A i \in 1..k : result'.value[i] = h[Len(h) - k + i]
              /\ state' = state
              /\ file' = file ]_vars

\* get_history(2) has returned the second and third of three records
C10_Witness ==
    /\ call.op = "get_history"
    /\ call.args.limit = 2
    /\ Len(state[Primary].rehydration_history) = 3
    /\ result.value = << state[Primary].rehydration_history[2],
                         state[Primary].rehydration_history[3] >>
    /\ state[Primary].rehydration_history[2] # state[Primary].rehydration_history[3]

(* C11: get_history with limit 0 returns the whole history, whatever its   *)
(* length.  Without a limit argument the limit is the parameter's default, *)
(* 10: the call returns the last 10 records, which is the whole history    *)
(* only when the history has at most 10 records.                           *)

C11_LimitZeroOrDefault ==
    [][ call'.op = "get_history" =>
          LET h == Before.rehydration_history
          IN  /\ (call'.args.limit_given /\ call'.args.limit = 0) => result'.value = h
              /\ ~call'.args.limit_given =>
                    /\ result'.value = SubSeq(h, IF Len(h) > 10 THEN Len(h) - 9 ELSE 1, Len(h))
                    /\ (result'.value = h) <=> (Len(h) <= 10) ]_vars

\* C11 as the specification words it: with limit 0 or with no limit
\* argument, get_history returns the whole history
C11_AsSpecified ==
    [][ (call'.op = "get_history" /\ (~call'.args.limit_given \/ call'.args.limit = 0)) =>
          result'.value = Before.rehydration_history ]_vars

\* get_history without a limit argument has returned the last 10 of 11
\* records
C11_Witness ==
    /\ call.op = "get_history"
    /\ ~call.args.limit_given
    /\ Len(state[Primary].rehydration_history) = 11
    /\ Len(result.value) = 10
    /\ result.value[1] = state[Primary].rehydration_history[2]
    /\ result.value # state[Primary].rehydration_history

(* C12: when a rehydrate call that created a record, or a reset call,      *)
(* returns, the state file holds the in-memory state; a coordinator that a *)
(* new process then constructs from the file has the same system_status,   *)
(* active_environments, last_rehydration and history; and a non-forced     *)
(* rehydrate a newly constructed coordinator makes of an environment the   *)
(* file holds as hydrated is skipped.                                      *)

C12_Durability ==
    [][ /\ ((RecordCreated \/ call'.op = "reset") /\ result'.raised = "") =>
            /\ saves' >= 1
            /\ file' = [exists |-> TRUE, text |-> json_dump(After)]
            /\ load_state(file') = After
        /\ (/\ call.op \in {"rehydrate", "reset"}
            /\ saves >= 1
            /\ result.raised = ""
            /\ call'.op = "__init__"
            /\ call'.coordinator = call.coordinator) =>
            /\ result'.raised = ""
            /\ After.system_status = Before.system_status
            /\ After.active_environments = Before.active_environments
            /\ After.last_rehydration = Before.last_rehydration
            /\ After.rehydration_history = Before.rehydration_history
        /\ (/\ call.op = "__init__"
            /\ result.raised = ""
            /\ RehydrateCalled
            /\ call'.coordinator = call.coordinator
            /\ ~call'.args.force
            /\ file.exists
            /\ json_decodes(file.text)
            /\ load_state(file).system_status = "hydrated"
            /\ In(call'.args.environment, load_state(file).active_environments)) =>
            /\ result'.raised = ""
            /\ "skipped" \in DOMAIN result'.value
            /\ executed' = <<>>
            /\ After = load_state(file) ]_vars

\* a new process has constructed the coordinator from the state file an
\* earlier one left, which holds a hydrated state with a success and a
\* failed record
C12_Witness ==
    /\ call.op = "__init__"
    /\ result.raised = ""
    /\ file = [exists |-> TRUE, text |-> json_dump(state[Primary])]
    /\ state[Primary] = load_state(file)
    /\ state[Primary].system_status = "hydrated"
    /\ state[Primary].last_rehydration # None
    /\ Len(state[Primary].active_environments) = 1
    /\ Len(state[Primary].rehydration_history) = 2
    /\ state[Primary].rehydration_history[1].status = "success"
    /\ state[Primary].rehydration_history[2].status = "failed"

(* C13: the history is append-only: in every rehydrate, get_status and     *)
(* get_history call, the history before the call is a prefix of the        *)
(* history after it, so that no record already appended is removed, moved  *)
(* or changed (its status included).                                       *)

C13_AppendOnly ==
    [][ call'.op \in {"rehydrate", "get_status", "get_history"} =>
          /\ Len(Before.rehydration_history) <= Len(After.rehydration_history)
          /\ \A i \in 1..Len(Before.rehydration_history) :
                After.rehydration_history[i] = Before.rehydration_history[i] ]_vars

\* a rehydrate call has appended a success record after an error and a
\* failed record, which are as they were appended
C13_Witness ==
    /\ call.op = "rehydrate"
    /\ LET h == state[Primary].rehydration_history
       IN  /\ Len(h) = 3
           /\ h[1].status = "error"
           /\ h[1].timestamp = isoformat(0)
           /\ "returncode" \notin DOMAIN h[1]
           /\ h[2].status = "failed"
           /\ h[2].timestamp = isoformat(1)
           /\ h[3].status = "success"
           /\ h[3].timestamp = isoformat(2)

(* C14: in every state reached by rehydrate and reset calls,               *)
(* active_environments holds no environment twice; and a rehydrate call    *)
(* leaves the environments already in the list where they were (the list   *)
(* before the call is a prefix of the list after it), so that their        *)
(* relative order never changes.                                           *)

C14_ActiveEnvironmentsOrdered ==
    [][ /\ \A c \in Coordinators :
              LET active == state'[c].active_environments
              IN  \A i, j \in 1..Len(active) : active[i] = active[j] => i = j
        /\ RehydrateCalled =>
              /\ Len(Before.active_environments) <= Len(After.active_environments)
              /\ \A i \in 1..Len(Before.active_environments) :
                    After.active_environments[i] = Before.active_environments[i] ]_vars

\* production was hydrated first and development after it: both are in
\* the list once, in that order
C14_Witness ==
    /\ call.op = "rehydrate"
    /\ call.args.environment = "development"
    /\ state[Primary].active_environments = <<"production", "development">>
    /\ Len(state[Primary].rehydration_history) = 2
    /\ state[Primary].rehydration_history[1].environment = "production"
    /\ state[Primary].rehydration_history[2].environment = "development"

(* C15: get_status changes neither the in-memory state nor the state file, *)
(* and yields the three status fields of the state and, as                 *)
(* total_rehydrations, the length of the history: a rehydrate call that    *)
(* creates a record (of status success, failed or error) adds to that      *)
(* length, and a skipped call adds nothing.                                *)

C15_StatusPureRead ==
    [][ /\ call'.op = "get_status" =>
            /\ state' = state
            /\ file' = file
            /\ result'.raised = ""
            /\ result'.value.total_rehydrations = Len(Before.rehydration_history)
            /\ result'.value.system_status = Before.system_status
            /\ result'.value.active_environments = Before.active_environments
            /\ result'.value.last_rehydration = Before.last_rehydration
        /\ RecordCreated =>
            /\ Len(After.rehydration_history) > Len(Before.rehydration_history)
            /\ Last(After.rehydration_history).status \in {"success", "failed", "error"}
        /\ (RehydrateCalled /\ GateFires) =>
            Len(After.rehydration_history) = Len(Before.rehydration_history) ]_vars

\* get_status has counted three records, one of each status, on a
\* hydrated system
C15_Witness ==
    /\ call.op = "get_status"
    /\ result.value.total_rehydrations = 3
    /\ result.value.system_status = "hydrated"
    /\ result.value.active_environments = state[Primary].active_environments
    /\ file = [exists |-> TRUE, text |-> json_dump(state[Primary])]
    /\ {state[Primary].rehydration_history[i].status : i \in 1..3} = {"success", "failed", "error"}

(* C16: with two coordinators on one state file, the last writer wins.     *)
(* When a coordinator whose history lacks the records the other one has    *)
(* written since both loaded the file completes a rehydrate that creates a *)
(* record, the file holds that coordinator's in-memory state: what it had  *)
(* loaded and its own new record.  The other coordinator's records are not *)
(* in the persisted history, and the persisted system_status and           *)
(* active_environments are the last writer's.                               *)

C16_LastWriterWins ==
    [][ \A c, d \in Coordinators :
          LET mine == state[c].rehydration_history
              theirs == state[d].rehydration_history
          IN  (/\ RecordCreated
               /\ call'.coordinator = c
               /\ d # c
               /\ file = [exists |-> TRUE, text |-> json_dump(state[d])]
               /\ Len(mine) < Len(theirs)
               /\ SubSeq(theirs, 1, Len(mine)) = mine) =>
                  /\ file' = [exists |-> TRUE, text |-> json_dump(state'[c])]
                  /\ load_state(file').rehydration_history
                        = Append(mine, Last(state'[c].rehydration_history))
                  /\ \A i \in (Len(mine) + 1)..Len(theirs) :
                        /\ ~In(theirs[i], load_state(file').rehydration_history)
                        /\ \A k \in 1..Len(PersistedRecords') :
                              PersistedRecords'[k] # json_of_record(theirs[i])
                  /\ load_state(file').system_status = state'[c].system_status
                  /\ load_state(file').active_environments = state'[c].active_environments
                  /\ state'[d] = state[d] ]_vars

\* A hydrated production and wrote; B, which had loaded the file before,
\* then failed to hydrate development and wrote: the file holds B's state,
\* without A's record, status and environment
C16_Witness ==
    /\ call.op = "rehydrate"
    /\ call.coordinator = "B"
    /\ state["A"].system_status = "hydrated"
    /\ state["A"].active_environments = <<"production">>
    /\ Len(state["A"].rehydration_history) = 1
    /\ state["A"].rehydration_history[1].status = "success"
    /\ Len(state["B"].rehydration_history) = 1
    /\ state["B"].rehydration_history[1].status = "failed"
    /\ state["B"].rehydration_history[1].environment = "development"
    /\ file = [exists |-> TRUE, text |-> json_dump(state["B"])]
    /\ load_state(file).system_status = "uninitialized"
    /\ load_state(file).active_environments = <<>>
    /\ Len(PersistedRecords) = 1

(* C17: the gate is per environment.  When system_status is hydrated and   *)
(* the environment is not in active_environments, rehydrate without force  *)
(* is not skipped: it looks the script up, enters the script invoker       *)
(* (which runs the script when its file exists) and appends a record for   *)
(* the environment; when the script exits with 0 the environment is added  *)
(* at the end of active_environments, after the ones already there.        *)

C17_GatePerEnvironment ==
    [][ (/\ RehydrateCalled
         /\ ~call'.args.force
         /\ Before.system_status = "hydrated"
         /\ ~In(call'.args.environment, Before.active_environments)) =>
          /\ result'.raised # "ValueError"
          /\ result'.raised = "" => "skipped" \notin DOMAIN result'.value
          /\ Len(After.rehydration_history) > Len(Before.rehydration_history)
          /\ Last(After.rehydration_history).environment = call'.args.environment
          /\ Last(After.rehydration_history).timestamp = isoformat(clock)
          /\ IF RegisteredPath \in on_disk
             THEN Len(executed') = 1
             ELSE /\ executed' = <<>>
                  /\ Last(After.rehydration_history).status = "error"
          /\ ScriptExited(0) =>
                /\ After.system_status = "hydrated"
                /\ After.active_environments =
                      Append(Before.active_environments, call'.args.environment)
          /\ ~ScriptExited(0) =>
                After.active_environments = Before.active_environments ]_vars

\* with development hydrated, a rehydrate of production without force has
\* run the script and added production after development
C17_Witness ==
    /\ call.op = "rehydrate"
    /\ ~call.args.force
    /\ call.args.environment = "production"
    /\ Len(executed) = 1
    /\ executed[1].returncode = 0
    /\ state[Primary].system_status = "hydrated"
    /\ state[Primary].active_environments = <<"development", "production">>
    /\ Len(state[Primary].rehydration_history) = 2
    /\ state[Primary].rehydration_history[1].status = "success"
    /\ state[Primary].rehydration_history[1].environment = "development"

(* C18: every rehydrate call that returns a result with success false      *)
(* leaves system_status, active_environments and last_rehydration as they  *)
(* were before the call, whatever exception rehydrate caught after it      *)
(* created the record: a failed write of the state file after the script   *)
(* exited with 0 included.                                                 *)

C18_UnsuccessfulLeavesStatus ==
    [][ (/\ RehydrateCalled
         /\ result'.raised = ""
         /\ result'.value.success = FALSE) =>
          /\ After.system_status = Before.system_status
          /\ After.active_environments = Before.active_environments
          /\ After.last_rehydration = Before.last_rehydration ]_vars

\* on a system never hydrated, the script exited with 0, the write of the
\* state file raised, and rehydrate returned success false: the state is
\* hydrated, with the environment active, and the attempt's record has
\* status error
C18_Witness ==
    /\ call.op = "rehydrate"
    /\ result.raised = ""
    /\ result.value.success = FALSE
    /\ Len(executed) = 1
    /\ executed[1].returncode = 0
    /\ saves = 2
    /\ clock = 2
    /\ state[Primary].system_status = "hydrated"
    /\ state[Primary].active_environments = <<call.args.environment>>
    /\ state[Primary].last_rehydration = isoformat(1)
    /\ Last(state[Primary].rehydration_history).status = "error"

(* C19: when the write of the state file at the end of rehydrate's normal  *)
(* path raises, the attempt's record is in the in-memory history exactly   *)
(* once: the history is one record longer than before the call.            *)

C19_OneRecordWhenWriteRaises ==
    [][ (RehydrateCalled /\ Len(executed') = 1 /\ saves' = 2) =>
          /\ Len(After.rehydration_history) = Len(Before.rehydration_history) + 1
          /\ Cardinality({i \in 1..Len(After.rehydration_history) :
                            After.rehydration_history[i].timestamp = isoformat(clock)}) = 1 ]_vars

\* the script exited with 1 and the write at the end of the normal path
\* raised: the history, empty before, holds the attempt's record twice,
\* with status error
C19_Witness ==
    /\ call.op = "rehydrate"
    /\ Len(executed) = 1
    /\ executed[1].returncode = 1
    /\ saves = 2
    /\ clock = 1
    /\ LET h == state[Primary].rehydration_history
       IN  /\ Len(h) = 2
           /\ h[1] = h[2]
           /\ h[1].timestamp = isoformat(0)
           /\ h[1].status = "error"
           /\ h[1].returncode = 1

(* C20: in every state reached from the default state by rehydrate and     *)
(* reset calls, system_status is hydrated if and only if                   *)
(* active_environments is not empty, if and only if last_rehydration is    *)
(* not null; and the history holds, for every environment of               *)
(* active_environments, a record of status success for that environment.   *)

C20_IndicatorsAgree ==
    \A c \in Coordinators :
        LET st == state[c]
        IN  /\ (st.system_status = "hydrated") <=> (st.active_environments # <<>>)
            /\ (st.active_environments # <<>>) <=> (st.last_rehydration # None)
            /\ \A i \in 1..Len(st.active_environments) :
                  \E k \in 1..Len(st.rehydration_history) :
                      /\ st.rehydration_history[k].status = "success"
                      /\ st.rehydration_history[k].environment = st.active_environments[i]

\* the three indicators say hydrated and the one active environment has no
\* success record: its script exited with 0, and the write of the state
\* file raised
C20_Witness ==
    /\ state[Primary].system_status = "hydrated"
    /\ state[Primary].last_rehydration # None
    /\ Len(state[Primary].active_environments) = 1
    /\ Len(executed) = 1
    /\ executed[1].returncode = 0
    /\ \A k \in 1..Len(state[Primary].rehydration_history) :
          /\ state[Primary].rehydration_history[k].status = "error"
          /\ state[Primary].rehydration_history[k].environment = state[Primary].active_environments[1]

====
